---- MODULE Spec2Model ----
(***************************************************************************)
(* ClusterComm: the asynchronous inter-node request dispatcher             *)
(* (Cluster/ClusterComm.cpp).  The model follows the active code path:     *)
(* asyncRequest hands every request to the shared Communicator and keeps   *)
(* the shared ClusterCommResult in `responses`; the transport callbacks    *)
(* run on the ClusterCommThread; wait, enquire and drop are called by      *)
(* arbitrary caller threads.  The legacy toSend/received queues are still  *)
(* state of the object and are what drop works on.                         *)
(***************************************************************************)
EXTENDS Integers, Sequences, FiniteSets, TLC

(***************************************************************************)
(* Bounds of the model.                                                    *)
(***************************************************************************)
\* number of asyncRequest calls (each may run on its own caller thread)
MaxReq == 2
\* number of caller threads that call wait, enquire and drop
NumThreads == 1
\* a call of wait is followed for this many ticks; one tick is one wait
\* slice (60 s)
MaxTime == 2

Reqs == 1..MaxReq
Threads == 1..NumThreads

(***************************************************************************)
(* ClusterCommOpStatus                                                     *)
(***************************************************************************)
CL_COMM_SUBMITTED == "CL_COMM_SUBMITTED"
CL_COMM_SENDING == "CL_COMM_SENDING"
CL_COMM_SENT == "CL_COMM_SENT"
CL_COMM_TIMEOUT == "CL_COMM_TIMEOUT"
CL_COMM_RECEIVED == "CL_COMM_RECEIVED"
CL_COMM_ERROR == "CL_COMM_ERROR"
CL_COMM_DROPPED == "CL_COMM_DROPPED"
CL_COMM_BACKEND_UNAVAILABLE == "CL_COMM_BACKEND_UNAVAILABLE"

\* the statuses the specification calls terminal
TerminalStatus ==
  {CL_COMM_RECEIVED, CL_COMM_TIMEOUT, CL_COMM_ERROR, CL_COMM_DROPPED,
   CL_COMM_BACKEND_UNAVAILABLE}

(***************************************************************************)
(* The topology service (ClusterInfo), fixed to a small cluster: shard S1  *)
(* lives on srvA and srvB, shard S2 has no responsible server, srvB has no *)
(* endpoint.                                                               *)
(***************************************************************************)
getResponsibleServer(shardID) ==
  IF shardID = "S1" THEN <<"srvA", "srvB">> ELSE <<>>

getServerEndpoint(serverID) ==
  IF serverID = "srvA" THEN "tcp://h:8529" ELSE ""

\* A destination string is kept as <<prefix, rest>>: dest.substr(0, n) is the
\* prefix, dest.substr(n) the rest.

\* a freshly constructed ClusterCommResult (the fields the dispatcher uses)
NewResult ==
  [ clientTransactionID |-> "", coordTransactionID |-> 0, operationID |-> 0,
    shardID |-> "", serverID |-> "", endpoint |-> "", errorMessage |-> "",
    status |-> CL_COMM_BACKEND_UNAVAILABLE, dropped |-> FALSE,
    single |-> FALSE ]

\* a resolver that takes the last responsible server of a shard
setDestinationLast(res, dest) ==
  LET resp == getResponsibleServer(dest[2])
      last == IF dest[1] = "shard:" /\ resp # <<>>
                THEN resp[Len(resp)] ELSE dest[2]
      ep == IF dest[1] \in {"shard:", "server:"}
              THEN getServerEndpoint(last) ELSE ""
  IN IF dest[1] \in {"shard:", "server:"} /\ ep # ""
       THEN [res EXCEPT !.shardID = IF dest[1] = "shard:" THEN dest[2] ELSE "",
                        !.serverID = last, !.endpoint = ep]
       ELSE [res EXCEPT !.status = CL_COMM_BACKEND_UNAVAILABLE]

\* ClusterCommResult::setDestination
setDestination(res, dest) ==
  LET lookup(r) ==
        LET ep == getServerEndpoint(r.serverID)
        IN IF ep = ""
             THEN [r EXCEPT !.endpoint = ep,
                            !.status = CL_COMM_BACKEND_UNAVAILABLE,
                            !.errorMessage = "did not find endpoint of server"]
             ELSE [r EXCEPT !.endpoint = ep]
  IN CASE dest[1] = "shard:" ->
            LET resp == getResponsibleServer(dest[2])
            IN IF resp # <<>>
                 THEN lookup([res EXCEPT !.shardID = dest[2],
                                         !.serverID = resp[1]])
                 ELSE [res EXCEPT !.shardID = dest[2], !.serverID = "",
                                  !.status = CL_COMM_BACKEND_UNAVAILABLE]
       [] dest[1] = "server:" ->
            lookup([res EXCEPT !.shardID = "", !.serverID = dest[2]])
       [] dest[1] \in {"tcp://", "ssl://"} ->
            [res EXCEPT !.shardID = "", !.serverID = "",
                        !.endpoint = dest[1] \o dest[2]]
       [] OTHER ->
            [res EXCEPT !.shardID = "", !.serverID = "", !.endpoint = "",
                        !.status = CL_COMM_BACKEND_UNAVAILABLE,
                        !.errorMessage = "did not understand destination"]

\* ClusterComm::prepareRequest: the result record and whether an HttpRequest
\* was built (second component FALSE stands for the nullptr request)
prepareRequest(dest) ==
  LET result == setDestination(NewResult, dest)
  IN IF result.endpoint = ""
       THEN <<result, FALSE>>
       ELSE <<[result EXCEPT !.status = CL_COMM_SUBMITTED], TRUE>>

\* ClusterComm::match
match(clientTransactionID, coordTransactionID, shardID, res) ==
  /\ (clientTransactionID = "" \/ clientTransactionID = res.clientTransactionID)
  /\ (0 = coordTransactionID \/ coordTransactionID = res.coordTransactionID)
  /\ (shardID = "" \/ shardID = res.shardID)

\* ClusterCommResult::fromResponse: the status a completed exchange leaves
fromResponse(res) == [res EXCEPT !.status = CL_COMM_RECEIVED]

\* the error codes the transport hands to onError
ErrorCodes == {"connect", "timeout", "http"}

\* ClusterCommResult::fromError: the status derived from the error code
fromError(res, errorCode) ==
  [res EXCEPT !.status =
     CASE errorCode = "connect" -> CL_COMM_BACKEND_UNAVAILABLE
       [] errorCode = "timeout" -> CL_COMM_TIMEOUT
       [] OTHER -> CL_COMM_ERROR]

(***************************************************************************)
(* The inputs the callers draw from.                                       *)
(***************************************************************************)
AsyncInputs ==
  { [clientTransactionID |-> "a", coordTransactionID |-> 1,
     destination |-> <<"shard:", "S1">>, callback |-> FALSE,
     singleRequest |-> FALSE],
    [clientTransactionID |-> "b", coordTransactionID |-> 2,
     destination |-> <<"tcp://", "h:8530">>, callback |-> TRUE,
     singleRequest |-> TRUE],
    [clientTransactionID |-> "a", coordTransactionID |-> 2,
     destination |-> <<"shard:", "S2">>, callback |-> FALSE,
     singleRequest |-> FALSE] }

\* the arguments of wait, drop and enquire (enquire reads ticketId only,
\* drop does not read timeout)
CallInputs ==
  { [clientTransactionID |-> "", coordTransactionID |-> 0, ticketId |-> 0,
     shardID |-> "", timeout |-> 0],
    [clientTransactionID |-> "a", coordTransactionID |-> 1, ticketId |-> 0,
     shardID |-> "S1", timeout |-> 1],
    [clientTransactionID |-> "b", coordTransactionID |-> 2, ticketId |-> 1,
     shardID |-> "", timeout |-> 0] }

\* somethingReceived.wait(60000000.0): the length of one wait slice, in ticks
WaitSlice == 1

VARIABLES
  nextTicket,   \* the Communicator's ticket source
  issued,       \* the tickets addRequest has handed out, in issue order
  apc,          \* apc[r]: where the asyncRequest call r stands
  ain,          \* ain[r]: the arguments of call r
  ticketId,     \* ticketId[r]: the local ticketId of call r
  rec,          \* rec[r]: the shared ClusterCommResult of call r
  tr,           \* tr[r]: the transport's handling of the request of call r
  cbCount,      \* cbCount[r]: invocations of the caller callback of call r
  responses,    \* ClusterComm::responses, ticket -> call whose result it holds
  toSend,       \* ClusterComm::toSend
  received,     \* ClusterComm::received
  th,           \* th[c]: the caller thread c inside wait, enquire or drop
  dropLog,      \* the last drop call: arguments, calls in a row, what matched
  crashed,      \* the process has died of undefined behaviour
  sync,         \* the syncRequest call: its locals and its transport request
  pa,           \* the last processAnswer call: header and return value
  bg,           \* the ClusterCommThread and the deadlines it is to enforce
  pr,           \* the performRequests call: its arguments and locals
  pf,           \* a destination being resolved and a request being prepared
  lk            \* asyncRequest, its callback and wait, step by step of their
                \* use of the mutex of somethingReceived

\* the state of syncRequest, processAnswer and the ClusterCommThread
ext == <<sync, pa, bg>>

\* the state of performRequests, of the resolver on its own and of the
\* threads followed lock by lock
ext2 == <<pr, pf, lk>>

vars == <<nextTicket, issued, apc, ain, ticketId, rec, tr, cbCount,
          responses, toSend, received, th, dropLog, crashed, sync, pa, bg,
          pr, pf, lk>>

NoInput == [clientTransactionID |-> "", coordTransactionID |-> 0,
            destination |-> <<"", "">>, callback |-> FALSE,
            singleRequest |-> FALSE]

NoCall == [clientTransactionID |-> "", coordTransactionID |-> 0,
           ticketId |-> 0, shardID |-> "", timeout |-> 0]

\* responses.end(), and a thread that holds no result record
End == -1
NoRid == 0

NoDrop == [in |-> NoCall, calls |-> 0, matched |-> {}]

IdleThread ==
  [pc |-> "idle", op |-> "none", in |-> NoCall, i |-> End, ivalid |-> FALSE,
   node |-> NoRid,
   rid |-> NoRid, elapsed |-> 0, slept |-> 0, notified |-> FALSE, res |-> NewResult]

\* syncRequest before it is called: its result record, its request with the
\* transport and the flag its callbacks set
NoSync ==
  [pc |-> "idle", destination |-> <<"", "">>, result |-> NewResult,
   tr |-> "none", ticket |-> 0, wasSignaled |-> FALSE, late |-> FALSE]

\* no processAnswer call has been made
NoAnswer == [header |-> <<>>, ret |-> "none", woken |-> FALSE]

\* the ClusterCommThread before beginShutdown: the stop flag, the loop
\* iterations it made after a deadline passed, the requests whose deadline
\* has passed, and the asyncRequest calls not yet begun at beginShutdown
NoWorker ==
  [stopping |-> FALSE, exited |-> FALSE, loops |-> 0, expired |-> {},
   late |-> {}]

\* communicator::Options before asyncRequest has set them
NoOptions == [connectionTimeout |-> 0, requestTimeout |-> 0]

\* no destination is being resolved on its own
NoPure ==
  [pc |-> "none", destination |-> <<"", "">>, clientTransactionID |-> "",
   coordTransactionID |-> 0, singleRequest |-> FALSE, timeout |-> 0,
   initTimeout |-> 0, resolved |-> NewResult, result |-> NewResult,
   built |-> FALSE, headers |-> <<>>, opt |-> NoOptions]

\* the threads that call wait while the mutex is followed
NumWaiters == 2
Waiters == 1..NumWaiters

\* a thread that has not called wait
IdleWaiter ==
  [pc |-> "idle", i |-> End, notified |-> FALSE, slept |-> FALSE,
   res |-> NewResult]

\* no thread is followed lock by lock: asyncRequest has not been called, the
\* mutex of somethingReceived is free, responses is empty
NoLock ==
  [spc |-> "idle", dpc |-> "none", mutex |-> <<"free">>,
   result |-> NewResult,
   ticketId |-> 0, responses |-> {}, w |-> [c \in Waiters |-> IdleWaiter]]

\* requests[i].result before any answer has been stored in it
NoAnswerYet ==
  [status |-> "none", operationID |-> 0, answer_code |-> 0,
   sendWasComplete |-> FALSE]

\* performRequests has not been called
NoPerform ==
  [pc |-> "idle", requests |-> <<>>, timeout |-> 0,
   coordinatorTransactionID |-> 0, startTime |-> 0, now |-> 0, endTime |-> 0,
   dueTime |-> <<>>, done |-> <<>>, result |-> <<>>, nrDone |-> 0,
   nrGood |-> 0, opIDtoIndex |-> <<>>, actionNeeded |-> 0, i |-> 0,
   slot |-> 0, clock |-> 0, timedOut |-> FALSE, ret |-> 0]

Init ==
  /\ lk = NoLock
  /\ pr = NoPerform
  /\ pf = NoPure
  /\ sync = NoSync
  /\ pa = NoAnswer
  /\ bg = NoWorker
  /\ nextTicket = 0
  /\ issued = <<>>
  /\ apc = [r \in Reqs |-> "idle"]
  /\ ain = [r \in Reqs |-> NoInput]
  /\ ticketId = [r \in Reqs |-> 0]
  /\ rec = [r \in Reqs |-> NewResult]
  /\ tr = [r \in Reqs |-> "none"]
  /\ cbCount = [r \in Reqs |-> 0]
  /\ responses = <<>>
  /\ toSend = <<>>
  /\ received = <<>>
  /\ th = [c \in Threads |-> IdleThread]
  /\ dropLog = NoDrop
  /\ crashed = FALSE

\* the entries of std::unordered_map responses
Tracked == DOMAIN responses

\* responses.emplace(key, value): an existing entry is kept
emplace(m, key, value) ==
  IF key \in DOMAIN m THEN m
  ELSE [k \in DOMAIN m \cup {key} |-> IF k = key THEN value ELSE m[k]]

\* responses.erase(i) for an iterator to a live entry
erase(m, key) == [k \in DOMAIN m \ {key} |-> m[k]]

(***************************************************************************)
(* ClusterComm::asyncRequest, one action per step of the caller thread     *)
(***************************************************************************)
\* lines 330-347: prepareRequest and the fields set from the arguments
asyncPrepare(r, in) ==
  /\ ~crashed
  /\ apc[r] = "idle"
  /\ \A q \in Reqs : q < r => apc[q] # "idle"
  /\ apc' = [apc EXCEPT ![r] = "prepared"]
  /\ ain' = [ain EXCEPT ![r] = in]
  /\ rec' = [rec EXCEPT ![r] =
       [prepareRequest(in.destination)[1] EXCEPT
          !.clientTransactionID = in.clientTransactionID,
          !.coordTransactionID = in.coordTransactionID,
          !.single = in.singleRequest]]
  /\ UNCHANGED <<nextTicket, issued, ticketId, tr, cbCount, responses,
                 toSend, received, th, dropLog, crashed>>
  /\ UNCHANGED ext
  /\ UNCHANGED ext2

\* Communicator::addRequest: the next ticket of the transport's id source
addRequest(last) == last + 1

\* asyncAddRequest with the transport's return value discarded, as syncRequest
\* discards it: ticketId keeps its zero
asyncAddRequestDiscarding(r) ==
  /\ ~crashed
  /\ apc[r] = "prepared"
  /\ apc' = [apc EXCEPT ![r] = "added"]
  /\ nextTicket' = addRequest(nextTicket)
  /\ ticketId' = [ticketId EXCEPT ![r] = 0]
  /\ issued' = Append(issued, nextTicket')
  /\ tr' = [tr EXCEPT ![r] = "queued"]
  /\ UNCHANGED <<ain, rec, cbCount, responses, toSend, received, th,
                 dropLog, crashed>>
  /\ UNCHANGED ext
  /\ UNCHANGED ext2

\* lines 399-401: the request, real or fake, is handed to the transport
asyncAddRequest(r) ==
  /\ ~crashed
  /\ apc[r] = "prepared"
  /\ apc' = [apc EXCEPT ![r] = "added"]
  /\ nextTicket' = addRequest(nextTicket)
  /\ ticketId' = [ticketId EXCEPT ![r] = nextTicket']
  /\ issued' = Append(issued, nextTicket')
  /\ tr' = [tr EXCEPT ![r] = "queued"]
  /\ UNCHANGED <<ain, rec, cbCount, responses, toSend, received, th,
                 dropLog, crashed>>
  /\ UNCHANGED ext
  /\ UNCHANGED ext2

\* an insertion that rehashes the unordered_map invalidates the iterators
\* the threads inside wait hold
invalidate(t) ==
  [c \in Threads |->
     IF t[c].pc \in {"w_copy", "w_check", "w_sleep", "w_erase"}
       THEN [t[c] EXCEPT !.ivalid = FALSE] ELSE t[c]]

\* lines 403-407
asyncInsert(r) ==
  /\ ~crashed
  /\ apc[r] = "added"
  /\ apc' = [apc EXCEPT ![r] = "inserted"]
  /\ rec' = [rec EXCEPT ![r].operationID = ticketId[r]]
  /\ responses' = emplace(responses, ticketId[r], r)
  /\ \E rehash \in BOOLEAN : th' = IF rehash THEN invalidate(th) ELSE th
  /\ UNCHANGED <<nextTicket, issued, ain, ticketId, tr, cbCount, toSend,
                 received, dropLog, crashed>>
  /\ UNCHANGED ext
  /\ UNCHANGED ext2

\* lines 408-409
asyncReturn(r) ==
  /\ ~crashed
  /\ apc[r] = "inserted"
  /\ apc' = [apc EXCEPT ![r] = "returned"]
  /\ rec' = [rec EXCEPT ![r].status = CL_COMM_SUBMITTED]
  /\ UNCHANGED <<nextTicket, issued, ain, ticketId, tr, cbCount,
                 responses, toSend, received, th, dropLog, crashed>>
  /\ UNCHANGED ext
  /\ UNCHANGED ext2

(***************************************************************************)
(* The transport callbacks of asyncRequest, run by the ClusterCommThread   *)
(* (work_once), one callback at a time.                                    *)
(***************************************************************************)
DriverFree ==
  /\ ~bg.exited
  /\ sync.tr # "running"
  /\ \A q \in Reqs : tr[q] # "running"

\* lines 367-369 and 390-392: onSuccess up to fromResponse
onSuccess(r) ==
  /\ ~crashed
  /\ tr[r] = "queued"
  /\ DriverFree
  /\ rec[r].endpoint # ""
  /\ tr' = [tr EXCEPT ![r] = "running"]
  /\ rec' = [rec EXCEPT ![r] = fromResponse(rec[r])]
  /\ UNCHANGED <<nextTicket, issued, apc, ain, ticketId, cbCount,
                 responses, toSend, received, th, dropLog, crashed>>
  /\ UNCHANGED ext
  /\ UNCHANGED ext2

\* lines 351-352 and 374-375: onError up to fromError
onError(r, errorCode) ==
  /\ ~crashed
  /\ tr[r] = "queued"
  /\ DriverFree
  /\ tr' = [tr EXCEPT ![r] = "running"]
  /\ rec' = [rec EXCEPT ![r] = fromError(rec[r], errorCode)]
  /\ UNCHANGED <<nextTicket, issued, apc, ain, ticketId, cbCount,
                 responses, toSend, received, th, dropLog, crashed>>
  /\ UNCHANGED ext
  /\ UNCHANGED ext2

\* somethingReceived.broadcast(): every thread asleep on the condition wakes
broadcast(t) ==
  [c \in Threads |->
     IF t[c].pc = "w_sleep" THEN [t[c] EXCEPT !.notified = TRUE] ELSE t[c]]

\* a transport callback that invokes the caller callback a second time
notifyTwice(r) ==
  /\ ~crashed
  /\ tr[r] = "running"
  /\ tr' = [tr EXCEPT ![r] = "done"]
  /\ IF ain[r].callback
       THEN cbCount' = [cbCount EXCEPT ![r] = @ + 2] /\ th' = th
       ELSE cbCount' = cbCount /\ th' = broadcast(th)
  /\ UNCHANGED <<nextTicket, issued, apc, ain, ticketId, rec, responses,
                 toSend, received, dropLog, crashed>>
  /\ UNCHANGED ext
  /\ UNCHANGED ext2

\* lines 364-365, 370-371 (caller callback) and 387-388, 394-395 (broadcast)
notify(r) ==
  /\ ~crashed
  /\ tr[r] = "running"
  /\ tr' = [tr EXCEPT ![r] = "done"]
  /\ IF ain[r].callback
       THEN cbCount' = [cbCount EXCEPT ![r] = @ + 1] /\ th' = th
       ELSE cbCount' = cbCount /\ th' = broadcast(th)
  /\ UNCHANGED <<nextTicket, issued, apc, ain, ticketId, rec, responses,
                 toSend, received, dropLog, crashed>>
  /\ UNCHANGED ext
  /\ UNCHANGED ext2
(***************************************************************************)
(* ClusterComm::enquire                                                    *)
(***************************************************************************)
\* lines 652-655 and 700-702: the record made up for an unknown ticket
droppedResult(ticket) ==
  [NewResult EXCEPT !.operationID = ticket, !.status = CL_COMM_DROPPED]

\* lines 638-656: what enquire returns, and the registry it leaves
enquireResult(ticket) ==
  IF ticket \in Tracked THEN rec[responses[ticket]] ELSE droppedResult(ticket)

\* enquire dequeuing the entry it found, as wait does
enquireResponsesErasing(ticket) ==
  [k \in DOMAIN responses \ {ticket} |-> responses[k]]

enquireResponses(ticket) == responses

enquire(c, ticket) ==
  /\ ~crashed
  /\ th[c].pc = "idle"
  /\ th' = [th EXCEPT ![c] =
       [IdleThread EXCEPT !.pc = "ret", !.op = "enquire",
                          !.in = [NoCall EXCEPT !.ticketId = ticket],
                          !.i = IF ticket \in Tracked THEN ticket ELSE End,
                          !.res = enquireResult(ticket)]]
  /\ responses' = enquireResponses(ticket)
  /\ UNCHANGED <<nextTicket, issued, apc, ain, ticketId, rec, tr,
                 cbCount, toSend, received, dropLog, crashed>>
  /\ UNCHANGED ext
  /\ UNCHANGED ext2

(***************************************************************************)
(* ClusterComm::wait, one action per step of the caller thread             *)
(***************************************************************************)
\* lines 689-697: the entries the lookup can stop at (the iteration order of
\* the unordered_map is unspecified)
waitCandidates(in) ==
  IF in.ticketId = 0
    THEN {t \in Tracked :
            match(in.clientTransactionID, in.coordTransactionID, in.shardID,
                  rec[responses[t]])}
    ELSE {t \in Tracked : t = in.ticketId}

\* lines 687-709
waitFind(c, in) ==
  /\ ~crashed
  /\ th[c].pc = "idle"
  /\ IF waitCandidates(in) = {}
       THEN th' = [th EXCEPT ![c] =
              [IdleThread EXCEPT !.pc = "ret", !.op = "wait", !.in = in,
                                 !.res = droppedResult(in.ticketId)]]
       ELSE \E t \in waitCandidates(in) :
              th' = [th EXCEPT ![c] =
                [IdleThread EXCEPT !.pc = "w_copy", !.op = "wait", !.in = in,
                                   !.i = t, !.ivalid = TRUE,
                                   !.node = responses[t]]]
  /\ UNCHANGED <<nextTicket, issued, apc, ain, ticketId, rec, tr,
                 cbCount, responses, toSend, received, dropLog, crashed>>
  /\ UNCHANGED ext
  /\ UNCHANGED ext2

\* the iterator of thread c still points to a live entry
iterLive(c) == th[c].ivalid /\ th[c].i \in Tracked

\* line 710: the iterator is read without the lock; reading through an
\* invalidated iterator is undefined (the old node is read, or a crash)
waitCopy(c) ==
  /\ ~crashed
  /\ th[c].pc = "w_copy"
  /\ IF iterLive(c)
       THEN /\ th' = [th EXCEPT ![c].pc = "w_check", ![c].rid = th[c].node]
            /\ crashed' = crashed
       ELSE \/ /\ th' = [th EXCEPT ![c].pc = "w_check",
                                   ![c].rid = th[c].node]
               /\ crashed' = crashed
            \/ /\ th' = th
               /\ crashed' = TRUE
  /\ UNCHANGED <<nextTicket, issued, apc, ain, ticketId, rec, tr,
                 cbCount, responses, toSend, received, dropLog>>
  /\ UNCHANGED ext
  /\ UNCHANGED ext2

\* lines 712-714: the status is read without the lock; while it is
\* CL_COMM_SUBMITTED the thread sleeps on somethingReceived for one slice.
\* The timeout argument is not read.
waitCheck(c) ==
  /\ ~crashed
  /\ th[c].pc = "w_check"
  /\ IF rec[th[c].rid].status = CL_COMM_SUBMITTED
       THEN th' = [th EXCEPT ![c].pc = "w_sleep", ![c].slept = 0,
                             ![c].notified = FALSE]
       ELSE th' = [th EXCEPT ![c].pc = "w_erase"]
  /\ UNCHANGED <<nextTicket, issued, apc, ain, ticketId, rec, tr,
                 cbCount, responses, toSend, received, dropLog, crashed>>
  /\ UNCHANGED ext
  /\ UNCHANGED ext2

\* line 714: somethingReceived.wait returns on a broadcast or after the slice
waitWake(c) ==
  /\ ~crashed
  /\ th[c].pc = "w_sleep"
  /\ th[c].notified \/ th[c].slept >= WaitSlice
  /\ th' = [th EXCEPT ![c].pc = "w_check"]
  /\ UNCHANGED <<nextTicket, issued, apc, ain, ticketId, rec, tr,
                 cbCount, responses, toSend, received, dropLog, crashed>>
  /\ UNCHANGED ext
  /\ UNCHANGED ext2

\* erase(m, key) also when the entry is already gone
eraseAny(m, key) == [k \in DOMAIN m \ {key} |-> m[k]]

\* lines 717-720: responses.erase(i); erasing through an invalidated iterator
\* is undefined (the entry goes, if it is still there; another entry goes;
\* nothing happens; a crash)
waitErase(c) ==
  /\ ~crashed
  /\ th[c].pc = "w_erase"
  /\ IF iterLive(c)
       THEN /\ responses' = erase(responses, th[c].i)
            /\ th' = [th EXCEPT ![c].pc = "w_return"]
            /\ crashed' = crashed
       ELSE \/ /\ \E m \in {responses} \cup
                          {eraseAny(responses, k) : k \in Tracked} :
                    responses' = m
               /\ th' = [th EXCEPT ![c].pc = "w_return"]
               /\ crashed' = crashed
            \/ /\ responses' = responses
               /\ th' = th
               /\ crashed' = TRUE
  /\ UNCHANGED <<nextTicket, issued, apc, ain, ticketId, rec, tr,
                 cbCount, toSend, received, dropLog>>
  /\ UNCHANGED ext
  /\ UNCHANGED ext2

\* line 724: the record is copied after the entry is gone, without the lock
waitReturn(c) ==
  /\ ~crashed
  /\ th[c].pc = "w_return"
  /\ th' = [th EXCEPT ![c].pc = "ret", ![c].res = rec[th[c].rid]]
  /\ UNCHANGED <<nextTicket, issued, apc, ain, ticketId, rec, tr,
                 cbCount, responses, toSend, received, dropLog, crashed>>
  /\ UNCHANGED ext
  /\ UNCHANGED ext2

(***************************************************************************)
(* ClusterComm::drop: it goes through toSend and received only             *)
(***************************************************************************)
\* lines 754-755 and 780-781: an operation is dropped on its id or on match
dropMatch(in, res) ==
  \/ (0 # in.ticketId /\ in.ticketId = res.operationID)
  \/ match(in.clientTransactionID, in.coordTransactionID, in.shardID, res)

\* lines 752-772: an operation being sent is only marked
RECURSIVE dropToSend(_, _)
dropToSend(q, in) ==
  IF q = <<>> THEN <<>>
  ELSE LET op == Head(q)
           rest == dropToSend(Tail(q), in)
       IN IF dropMatch(in, op.result)
            THEN IF op.result.status = CL_COMM_SENDING
                   THEN <<[op EXCEPT !.result.dropped = TRUE]>> \o rest
                   ELSE rest
            ELSE <<op>> \o rest

\* lines 778-794
dropReceived(q, in) == SelectSeq(q, LAMBDA op : ~dropMatch(in, op.result))

\* the tracked tickets that match all the arguments of a call
matching(in) ==
  {t \in Tracked :
     /\ (in.ticketId = 0 \/ in.ticketId = rec[responses[t]].operationID)
     /\ match(in.clientTransactionID, in.coordTransactionID, in.shardID,
              rec[responses[t]])}

\* lines 749-773: the first critical section, under somethingToSend
dropSend(c, in) ==
  /\ ~crashed
  /\ \/ /\ th[c].pc = "idle"
        /\ dropLog' = [in |-> in, calls |-> 1, matched |-> matching(in)]
     \/ /\ th[c].pc = "ret" /\ th[c].op = "drop"
        /\ dropLog.calls = 1 /\ in = dropLog.in
        /\ dropLog' = [dropLog EXCEPT !.calls = 2]
  /\ th' = [th EXCEPT ![c] =
       [IdleThread EXCEPT !.pc = "d_recv", !.op = "drop", !.in = in]]
  /\ toSend' = dropToSend(toSend, in)
  /\ UNCHANGED <<nextTicket, issued, apc, ain, ticketId, rec, tr,
                 cbCount, responses, received, crashed>>
  /\ UNCHANGED ext
  /\ UNCHANGED ext2

\* lines 775-795: the second critical section, under somethingReceived
dropRecv(c) ==
  /\ ~crashed
  /\ th[c].pc = "d_recv"
  /\ th' = [th EXCEPT ![c].pc = "ret"]
  /\ received' = dropReceived(received, th[c].in)
  /\ UNCHANGED <<nextTicket, issued, apc, ain, ticketId, rec, tr,
                 cbCount, responses, toSend, dropLog, crashed>>
  /\ UNCHANGED ext
  /\ UNCHANGED ext2

\* the caller thread goes on to its next call
callDone(c) ==
  /\ ~crashed
  /\ th[c].pc = "ret"
  /\ th' = [th EXCEPT ![c] = IdleThread]
  /\ dropLog' = IF th[c].op = "drop" THEN NoDrop ELSE dropLog
  /\ UNCHANGED <<nextTicket, issued, apc, ain, ticketId, rec, tr,
                 cbCount, responses, toSend, received, crashed>>
  /\ UNCHANGED ext
  /\ UNCHANGED ext2

\* time passes while the threads inside wait are asleep; a thread that is
\* awake takes its next step first, and a thread whose slice is over wakes
\* first. The time since the call is followed for a wait with a timeout.
Tick ==
  /\ ~crashed
  /\ \E c \in Threads : th[c].pc = "w_sleep"
  /\ \A c \in Threads :
       /\ th[c].pc \notin {"w_copy", "w_check"}
       /\ th[c].pc = "w_sleep" => th[c].slept < WaitSlice
  /\ th' = [c \in Threads |->
       IF th[c].pc = "w_sleep"
         THEN [th[c] EXCEPT
                 !.slept = @ + 1,
                 !.elapsed = IF th[c].in.timeout > 0 /\ @ < MaxTime
                               THEN @ + 1 ELSE @]
         ELSE th[c]]
  /\ UNCHANGED <<nextTicket, issued, apc, ain, ticketId, rec, tr, cbCount,
                 responses, toSend, received, dropLog, crashed>>
  /\ UNCHANGED ext
  /\ UNCHANGED ext2

(***************************************************************************)
(* ClusterComm::syncRequest, one action per step of the caller thread, and *)
(* its two transport callbacks, run by the ClusterCommThread               *)
(***************************************************************************)
\* the destinations syncRequest is called with
SyncInputs == {<<"shard:", "S1">>, <<"shard:", "S2">>, <<"server:", "srvB">>}

\* lines 555-563 run as asyncRequest runs them: no early return, the request
\* goes on to the transport whatever prepareRequest returned
syncPrepareSubmitting(dest) ==
  /\ ~crashed
  /\ sync.pc = "idle"
  /\ sync' = [sync EXCEPT !.pc = "prepared", !.destination = dest,
                          !.result = [prepareRequest(dest)[1]
                                        EXCEPT !.single = TRUE],
                          !.late = bg.stopping]
  /\ UNCHANGED <<nextTicket, issued, apc, ain, ticketId, rec, tr, cbCount,
                 responses, toSend, received, th, dropLog, crashed, pa, bg>>
  /\ UNCHANGED ext2

\* lines 555-563: prepareRequest, single = true, and the return when no
\* request was built
syncPrepare(dest) ==
  /\ ~crashed
  /\ sync.pc = "idle"
  /\ sync' = [sync EXCEPT
                !.pc = IF prepareRequest(dest)[2] THEN "prepared"
                                                  ELSE "returned",
                !.destination = dest,
                !.result = [prepareRequest(dest)[1] EXCEPT !.single = TRUE],
                !.late = bg.stopping]
  /\ UNCHANGED <<nextTicket, issued, apc, ain, ticketId, rec, tr, cbCount,
                 responses, toSend, received, th, dropLog, crashed, pa, bg>>
  /\ UNCHANGED ext2

\* syncRequest entering the ticket it got into responses, as asyncRequest does
syncResponsesTracking(ticket) == emplace(responses, ticket, 1)

\* lines 599-600: the ticket addRequest returns is discarded, responses is
\* not touched
syncResponses(ticket) == responses

\* lines 597-600
syncAddRequest ==
  /\ ~crashed
  /\ sync.pc = "prepared"
  /\ nextTicket' = addRequest(nextTicket)
  /\ issued' = Append(issued, nextTicket')
  /\ responses' = syncResponses(nextTicket')
  /\ sync' = [sync EXCEPT !.pc = "added", !.tr = "queued",
                          !.ticket = nextTicket']
  /\ UNCHANGED <<apc, ain, ticketId, rec, tr, cbCount, toSend, received,
                 th, dropLog, crashed, pa, bg>>
  /\ UNCHANGED ext2

\* line 601, outside any lock
syncSetSending ==
  /\ ~crashed
  /\ sync.pc = "added"
  /\ sync' = [sync EXCEPT !.pc = "waiting",
                          !.result.status = CL_COMM_SENDING]
  /\ UNCHANGED <<nextTicket, issued, apc, ain, ticketId, rec, tr, cbCount,
                 responses, toSend, received, th, dropLog, crashed, pa, bg>>
  /\ UNCHANGED ext2

\* lines 571-572: the success callback up to fromResponse
syncOnSuccess ==
  /\ ~crashed
  /\ sync.tr = "queued"
  /\ DriverFree
  /\ sync' = [sync EXCEPT !.tr = "running",
                          !.result = fromResponse(sync.result)]
  /\ UNCHANGED <<nextTicket, issued, apc, ain, ticketId, rec, tr, cbCount,
                 responses, toSend, received, th, dropLog, crashed, pa, bg>>
  /\ UNCHANGED ext2

\* lines 577-578: the error callback up to fromError
syncOnError(errorCode) ==
  /\ ~crashed
  /\ sync.tr = "queued"
  /\ DriverFree
  /\ sync' = [sync EXCEPT !.tr = "running",
                          !.result = fromError(sync.result, errorCode)]
  /\ UNCHANGED <<nextTicket, issued, apc, ain, ticketId, rec, tr, cbCount,
                 responses, toSend, received, th, dropLog, crashed, pa, bg>>
  /\ UNCHANGED ext2

\* lines 574-576 and 591-593: wasSignaled = true and cv.signal(), under the
\* private condition variable
syncSignal ==
  /\ ~crashed
  /\ sync.tr = "running"
  /\ sync' = [sync EXCEPT !.tr = "done", !.wasSignaled = TRUE]
  /\ UNCHANGED <<nextTicket, issued, apc, ain, ticketId, rec, tr, cbCount,
                 responses, toSend, received, th, dropLog, crashed, pa, bg>>
  /\ UNCHANGED ext2

\* lines 603-607: the loop ends once wasSignaled is set
syncReturn ==
  /\ ~crashed
  /\ sync.pc = "waiting"
  /\ sync.wasSignaled
  /\ sync' = [sync EXCEPT !.pc = "returned"]
  /\ UNCHANGED <<nextTicket, issued, apc, ain, ticketId, rec, tr, cbCount,
                 responses, toSend, received, th, dropLog, crashed, pa, bg>>
  /\ UNCHANGED ext2

(***************************************************************************)
(* ClusterCommThread::beginShutdown, called by ~ClusterComm                *)
(***************************************************************************)
\* somethingToSend.signal(): the threads asleep on somethingToSend wake; the
\* threads inside wait sleep on somethingReceived
signalToSend(t) == t

\* lines 1061-1070: the stop flag is set and somethingToSend is signalled
beginShutdown ==
  /\ ~crashed
  /\ ~bg.stopping
  /\ bg' = [bg EXCEPT !.stopping = TRUE,
                      !.late = {r \in Reqs : apc[r] = "idle"}]
  /\ th' = signalToSend(th)
  /\ UNCHANGED <<nextTicket, issued, apc, ain, ticketId, rec, tr, cbCount,
                 responses, toSend, received, dropLog, crashed, sync, pa>>
  /\ UNCHANGED ext2

\* syncRequest and one asyncRequest side by side, with enquire and shutdown
SyncNext ==
  \/ \E dest \in SyncInputs : syncPrepare(dest)
  \/ syncAddRequest
  \/ syncSetSending
  \/ syncOnSuccess
  \/ \E e \in ErrorCodes : syncOnError(e)
  \/ syncSignal
  \/ syncReturn
  \/ \E in \in AsyncInputs : asyncPrepare(1, in)
  \/ \E r \in Reqs : asyncAddRequest(r)
  \/ \E r \in Reqs : asyncInsert(r)
  \/ \E r \in Reqs : asyncReturn(r)
  \/ \E r \in Reqs : onSuccess(r)
  \/ \E r \in Reqs, e \in ErrorCodes : onError(r, e)
  \/ \E r \in Reqs : notify(r)
  \/ \E c \in Threads, in \in CallInputs : enquire(c, in.ticketId)
  \/ \E c \in Threads : callDone(c)
  \/ beginShutdown

SyncSpec == Init /\ [][SyncNext]_vars


(***************************************************************************)
(* ClusterComm::processAnswer.  A header is a sequence of characters.      *)
(***************************************************************************)
\* longest X-Arango-Coordinator header tried
MaxHeaderLen == 3

HeaderChars == {"s", ":", "1"}

RECURSIVE headersOfLen(_)
headersOfLen(n) ==
  IF n = 0 THEN {<<>>}
  ELSE {Append(h, c) : h \in headersOfLen(n - 1), c \in HeaderChars}

Headers == UNION {headersOfLen(n) : n \in 0..MaxHeaderLen}

\* std::string::npos, for positions counted from 1
npos == 0

\* coordinatorHeader.find(":", start)
find(header, start) ==
  IF \E i \in start..Len(header) : header[i] = ":"
    THEN CHOOSE i \in start..Len(header) :
           header[i] = ":" /\ \A j \in start..(i - 1) : header[j] # ":"
    ELSE npos

Digits == <<"0", "1", "2", "3", "4", "5", "6", "7", "8", "9">>

isDigit(c) == \E d \in 1..Len(Digits) : Digits[d] = c

digit(c) == (CHOOSE d \in 1..Len(Digits) : Digits[d] = c) - 1

RECURSIVE decimal(_)
decimal(str) ==
  IF str = <<>> THEN 0
  ELSE decimal(SubSeq(str, 1, Len(str) - 1)) * 10 + digit(str[Len(str)])

\* StringUtils::uint64: the number the leading decimal digits spell, 0 when
\* there is none (the headers tried stay far below 2^64)
uint64(str) ==
  LET n == CHOOSE k \in 0..Len(str) :
             /\ \A i \in 1..k : isDigit(str[i])
             /\ (k < Len(str) => ~isDigit(str[k + 1]))
  IN decimal(SubSeq(str, 1, n))

NoCoordinatorID == "could not find coordinator ID in 'X-Arango-Coordinator'"
NoOperationID == "could not find operationID in 'X-Arango-Coordinator'"
AlreadyDropped == "operation was already dropped by sender"

\* the header taken apart with the first ':' only, as asyncAnswer does
parseHeaderFirstColon(header) ==
  LET pos == find(header, 1)
  IN IF pos = npos
       THEN [error |-> NoCoordinatorID, operationID |-> 0]
       ELSE [error |-> "",
             operationID |-> uint64(SubSeq(header, pos + 1, Len(header)))]

\* lines 910-926: the header taken apart; error is "" when it was accepted
parseHeader(header) ==
  LET pos == find(header, 1)
  IN IF pos = npos
       THEN [error |-> NoCoordinatorID, operationID |-> 0]
       ELSE LET start == pos + 1
                pos2 == find(header, start)
            IN IF pos2 = npos
                 THEN [error |-> NoOperationID, operationID |-> 0]
                 ELSE [error |-> "",
                       operationID |->
                         uint64(SubSeq(header, start, Len(header)))]

\* receivedByOpID.find / toSendByOpID.find: the place of the operation in the
\* queue, 0 when the index does not hold it
findByOpID(q, operationID) ==
  IF \E i \in 1..Len(q) : q[i].result.operationID = operationID
    THEN CHOOSE i \in 1..Len(q) : q[i].result.operationID = operationID
    ELSE 0

\* lines 934-953 and 960-977: the answer is attached to the operation found
\* in a queue; an operation whose callback accepts it leaves the queue
answerInQueue(q, i) ==
  IF q[i].callback
    THEN SubSeq(q, 1, i - 1) \o SubSeq(q, i + 1, Len(q))
    ELSE [q EXCEPT ![i].result.status = CL_COMM_RECEIVED]

\* lines 901-986.  TRI_ASSERT(false) at line 904 ends the process in a
\* maintainer build and is nothing in a release build.
processAnswer(header) ==
  /\ ~crashed
  /\ \/ /\ crashed' = TRUE
        /\ UNCHANGED <<received, toSend, th, pa>>
     \/ /\ crashed' = crashed
        /\ LET parsed == parseHeader(header)
               i == findByOpID(received, parsed.operationID)
               k == findByOpID(toSend, parsed.operationID)
           IN IF parsed.error # ""
                THEN /\ pa' = [header |-> header, ret |-> parsed.error,
                               woken |-> FALSE]
                     /\ UNCHANGED <<received, toSend, th>>
                ELSE IF i # 0
                  THEN /\ received' = answerInQueue(received, i)
                       /\ toSend' = toSend
                       /\ th' = IF received[i].callback THEN th
                                ELSE broadcast(th)
                       /\ pa' = [header |-> header, ret |-> "",
                                 woken |-> ~received[i].callback]
                ELSE IF k # 0
                  THEN /\ toSend' = answerInQueue(toSend, k)
                       /\ received' = received
                       /\ th' = IF toSend[k].callback THEN th
                                ELSE broadcast(th)
                       /\ pa' = [header |-> header, ret |-> "",
                                 woken |-> ~toSend[k].callback]
                ELSE /\ pa' = [header |-> header, ret |-> AlreadyDropped,
                               woken |-> FALSE]
                     /\ UNCHANGED <<received, toSend, th>>
  /\ UNCHANGED <<nextTicket, issued, apc, ain, ticketId, rec, tr, cbCount,
                 responses, dropLog, sync, bg>>
  /\ UNCHANGED ext2

\* one asyncRequest, its transport callbacks, a caller inside wait, and the
\* inbound answers
AnswerNext ==
  \/ \E h \in Headers : processAnswer(h)
  \/ \E in \in AsyncInputs : asyncPrepare(1, in)
  \/ \E r \in Reqs : asyncAddRequest(r)
  \/ \E r \in Reqs : asyncInsert(r)
  \/ \E r \in Reqs : asyncReturn(r)
  \/ \E r \in Reqs : onSuccess(r)
  \/ \E r \in Reqs, e \in ErrorCodes : onError(r, e)
  \/ \E r \in Reqs : notify(r)
  \/ \E c \in Threads, in \in CallInputs : waitFind(c, in)
  \/ \E c \in Threads : waitCopy(c)
  \/ \E c \in Threads : waitCheck(c)
  \/ \E c \in Threads : waitWake(c)
  \/ \E c \in Threads : waitErase(c)
  \/ \E c \in Threads : waitReturn(c)
  \/ \E c \in Threads : callDone(c)
  \/ Tick

AnswerSpec == Init /\ [][AnswerNext]_vars

(***************************************************************************)
(* ClusterCommThread::run and the deadlines of the requests                *)
(***************************************************************************)
\* loop iterations counted after a deadline has passed
MaxLoops == 1

\* the asyncRequest calls made while the worker runs
WorkerInputs ==
  { [clientTransactionID |-> "a", coordTransactionID |-> 1,
     destination |-> <<"shard:", "S1">>, callback |-> FALSE,
     singleRequest |-> TRUE],
    [clientTransactionID |-> "b", coordTransactionID |-> 2,
     destination |-> <<"server:", "srvB">>, callback |-> TRUE,
     singleRequest |-> FALSE] }

\* `timeout` seconds have passed since asyncRequest r was called
deadline(r) ==
  /\ ~crashed
  /\ apc[r] # "idle"
  /\ r \notin bg.expired
  /\ bg' = [bg EXCEPT !.expired = @ \cup {r}]
  /\ UNCHANGED <<nextTicket, issued, apc, ain, ticketId, rec, tr, cbCount,
                 responses, toSend, received, th, dropLog, crashed, sync, pa>>
  /\ UNCHANGED ext2

\* lines 1403-1406: one iteration of the loop is work_once(), wait() and
\* continue; the callbacks work_once runs are the actions onSuccess, onError
\* and notify.  The code below the continue is never reached.
run ==
  /\ ~crashed
  /\ ~bg.stopping
  /\ bg.expired # {}
  /\ bg.loops < MaxLoops
  /\ bg' = [bg EXCEPT !.loops = @ + 1]
  /\ UNCHANGED <<nextTicket, issued, apc, ain, ticketId, rec, tr, cbCount,
                 responses, toSend, received, th, dropLog, crashed, sync, pa>>
  /\ UNCHANGED ext2

\* lines 1403 and 1582-1585: the loop ends once the thread is stopping
runExit ==
  /\ ~crashed
  /\ bg.stopping
  /\ ~bg.exited
  /\ DriverFree
  /\ bg' = [bg EXCEPT !.exited = TRUE]
  /\ UNCHANGED <<nextTicket, issued, apc, ain, ticketId, rec, tr, cbCount,
                 responses, toSend, received, th, dropLog, crashed, sync, pa>>
  /\ UNCHANGED ext2

\* one asyncRequest, a caller inside wait, the worker and its shutdown
WorkerNext ==
  \/ \E in \in WorkerInputs : asyncPrepare(1, in)
  \/ \E r \in Reqs : asyncAddRequest(r)
  \/ \E r \in Reqs : asyncInsert(r)
  \/ \E r \in Reqs : asyncReturn(r)
  \/ \E r \in Reqs : onSuccess(r)
  \/ \E r \in Reqs, e \in ErrorCodes : onError(r, e)
  \/ \E r \in Reqs : notify(r)
  \/ \E c \in Threads, in \in CallInputs : waitFind(c, in)
  \/ \E c \in Threads : waitCopy(c)
  \/ \E c \in Threads : waitCheck(c)
  \/ \E c \in Threads : waitWake(c)
  \/ \E c \in Threads : waitErase(c)
  \/ \E c \in Threads : waitReturn(c)
  \/ \E c \in Threads : callDone(c)
  \/ Tick
  \/ \E r \in Reqs : deadline(r)
  \/ run
  \/ runExit
  \/ beginShutdown

WorkerSpec == Init /\ [][WorkerNext]_vars

(***************************************************************************)
(* The resolver and the request preparer on their own: a destination is    *)
(* resolved into a fresh record and the request for it is built.           *)
(***************************************************************************)
\* the destinations tried: the four valid prefixes and others
Prefixes == {"shard:", "server:", "tcp://", "ssl://", "http://", "SHARD:", ""}

Rests == {"S1", "S2", "srvA", "srvB", "h:8530", ""}

\* the values of arangodb::Transaction::_makeNolockHeaders (nullptr as the
\* empty set)
NolockSets == {{}, {"S1"}}

\* the header fields of the caller
CallerHeaders == [{"X-Custom"} -> {"v"}]

\* f with the field name set to value (headersCopy[name] = value)
setHeader(f, name, value) ==
  [k \in DOMAIN f \cup {name} |-> IF k = name THEN value ELSE f[k]]

\* lines 1352-1366: the header fields of the request prepareRequest builds
prepareHeaders(dest, headerFields, result, makeNolockHeaders) ==
  LET nolock == IF dest[1] = "shard:" /\ result.shardID \in makeNolockHeaders
                  THEN setHeader(headerFields, "X-Arango-Nolock",
                                 result.shardID)
                  ELSE headerFields
      auth == setHeader(nolock, "Authorization", "authentication")
  IN setHeader(auth, "X-Arango-HLC", "timeStamp")

\* the timeout arguments of asyncRequest, in seconds; -1 is the default of
\* initTimeout
Timeouts == {2}
InitTimeouts == {-1, 0, 1}

\* lines 344-346: the options handed to the transport
options(timeout, initTimeout) ==
  [connectionTimeout |-> initTimeout, requestTimeout |-> timeout]

\* the calls of asyncRequest whose destination is resolved
PureInputs ==
  { [NoPure EXCEPT !.pc = "input", !.destination = <<p, q>>,
                   !.clientTransactionID = c, !.coordTransactionID = t,
                   !.singleRequest = s, !.timeout = timeout,
                   !.initTimeout = initTimeout] :
      p \in Prefixes, q \in Rests, c \in {"a"}, t \in {1, 2},
      s \in BOOLEAN, timeout \in Timeouts, initTimeout \in InitTimeouts }

ResolveInit ==
  /\ pf \in PureInputs
  /\ lk = NoLock
  /\ pr = NoPerform
  /\ sync = NoSync
  /\ pa = NoAnswer
  /\ bg = NoWorker
  /\ nextTicket = 0
  /\ issued = <<>>
  /\ apc = [r \in Reqs |-> "idle"]
  /\ ain = [r \in Reqs |-> NoInput]
  /\ ticketId = [r \in Reqs |-> 0]
  /\ rec = [r \in Reqs |-> NewResult]
  /\ tr = [r \in Reqs |-> "none"]
  /\ cbCount = [r \in Reqs |-> 0]
  /\ responses = <<>>
  /\ toSend = <<>>
  /\ received = <<>>
  /\ th = [c \in Threads |-> IdleThread]
  /\ dropLog = NoDrop
  /\ crashed = FALSE

\* lines 330-346 with prepareRequest: the destination is resolved, the
\* record gets the transaction ids, the request, if any, its headers, and
\* the options of the transport are set
resolve(headerFields, makeNolockHeaders) ==
  /\ pf.pc = "input"
  /\ LET prepared == prepareRequest(pf.destination)
     IN pf' = [pf EXCEPT
                 !.pc = "done",
                 !.resolved = setDestination(NewResult, pf.destination),
                 !.result = [prepared[1] EXCEPT
                    !.clientTransactionID = pf.clientTransactionID,
                    !.coordTransactionID = pf.coordTransactionID,
                    !.single = pf.singleRequest],
                 !.built = prepared[2],
                 !.opt = options(pf.timeout, pf.initTimeout),
                 !.headers = IF prepared[2]
                               THEN prepareHeaders(pf.destination,
                                                   headerFields, prepared[1],
                                                   makeNolockHeaders)
                               ELSE <<>>]
  /\ UNCHANGED <<nextTicket, issued, apc, ain, ticketId, rec, tr, cbCount,
                 responses, toSend, received, th, dropLog, crashed, sync,
                 pa, bg, pr>>
  /\ UNCHANGED lk

ResolveNext ==
  \E headerFields \in CallerHeaders, makeNolockHeaders \in NolockSets :
    resolve(headerFields, makeNolockHeaders)

ResolveSpec == ResolveInit /\ [][ResolveNext]_vars

(***************************************************************************)
(* ClusterComm::performRequests, one action per step of its caller thread  *)
(* (thread 1).  Its asyncRequest, wait and drop calls are the actions      *)
(* above.  Times are counted in ticks of 0.2 seconds, startTime is 0.      *)
(***************************************************************************)
\* the last tick of the clock
MaxClock == 3

\* line 1212: the shortest and the longest retry delay (0.2 s and 10.0 s)
RetryMin == 1
RetryMax == 50

\* line 1138: endTime + 10 (seconds), the due time that orders no retry
NoRetry == 50

\* the request vectors (their destinations) and the total timeouts
PerformInputs ==
  { [requests |-> q, timeout |-> t] :
      q \in { <<>>, << <<"shard:", "S1">> >>, << <<"shard:", "S2">> >>,
              << <<"shard:", "S1">>, <<"shard:", "S1">> >> },
      t \in {0, 2} }

\* the answer codes a response can carry: OK, CREATED, ACCEPTED, NOT_FOUND
AnswerCodes == {200, 201, 202, 404}

min2(a, b) == IF a < b THEN a ELSE b
max2(a, b) == IF a > b THEN a ELSE b

\* lines 1119 and 1231: all requests are done
allDoneEarly(nrDone, size) == nrDone + 1 >= size

allDone(nrDone, size) == nrDone >= size

\* lines 1165 and 1178: the time for the next action has come
reachedAfter(now, actionNeeded) == now > actionNeeded

reached(now, actionNeeded) == now >= actionNeeded

\* lines 1196-1198: the answer codes counted as a success
isGoodAny(answer_code) == answer_code >= 200

isGood(answer_code) == answer_code \in {200, 201, 202}

\* lines 1205-1206: the results after which the request is sent again
retryUnlessReceived(status, sendWasComplete) == status # CL_COMM_RECEIVED

retry(status, sendWasComplete) ==
  \/ status = CL_COMM_BACKEND_UNAVAILABLE
  \/ (status = CL_COMM_TIMEOUT /\ ~sendWasComplete)

\* lines 1211-1212: the time of the next attempt
backoff(now, startTime) ==
  min2(RetryMax, max2(RetryMin, 2 * (now - startTime))) + now

\* lines 1155-1160
actionNeededAt(dueTime, done, endTime) ==
  LET RECURSIVE least(_, _)
      least(i, a) ==
        IF i > Len(dueTime) THEN a
        ELSE least(i + 1, IF ~done[i] /\ dueTime[i] < a THEN dueTime[i] ELSE a)
  IN least(1, endTime)

\* lines 1090-1116: the empty vector returns at once, otherwise the locals
\* are set up
performRequests(in) ==
  /\ ~crashed
  /\ pr.pc = "idle"
  /\ LET n == Len(in.requests)
     IN pr' = IF n = 0
          THEN [pr EXCEPT !.pc = "returned", !.nrDone = 0, !.ret = 0]
          ELSE [pr EXCEPT
                  !.pc = "loop", !.requests = in.requests,
                  !.timeout = in.timeout,
                  !.coordinatorTransactionID = 1,
                  !.startTime = pr.clock, !.now = pr.clock,
                  !.endTime = pr.clock + in.timeout,
                  !.dueTime = [i \in 1..n |-> pr.clock],
                  !.done = [i \in 1..n |-> FALSE],
                  !.result = [i \in 1..n |-> NoAnswerYet],
                  !.nrDone = 0, !.nrGood = 0]
  /\ UNCHANGED <<nextTicket, issued, apc, ain, ticketId, rec, tr, cbCount,
                 responses, toSend, received, th, dropLog, crashed, sync,
                 pa, bg, pf>>
  /\ UNCHANGED lk

\* lines 1118-1122: the loop condition and the check that all are done
performLoop ==
  /\ ~crashed
  /\ pr.pc = "loop"
  /\ pr' = IF ~(pr.now <= pr.endTime)
             THEN [pr EXCEPT !.pc = "timeout"]
             ELSE IF allDone(pr.nrDone, Len(pr.requests))
               THEN [pr EXCEPT !.pc = "returned", !.ret = pr.nrGood]
               ELSE [pr EXCEPT !.pc = "send", !.i = 1]
  /\ UNCHANGED <<nextTicket, issued, apc, ain, ticketId, rec, tr, cbCount,
                 responses, toSend, received, th, dropLog, crashed, sync,
                 pa, bg, pf>>
  /\ UNCHANGED lk

\* the asyncRequest call that is free for the next attempt
freeSlots == {r \in Reqs : apc[r] = "idle" /\ \A q \in Reqs : q < r => apc[q] # "idle"}

\* lines 1125-1141 and 1154-1160: the next request of the vector is looked
\* at; a request that is due is sent, after the last one actionNeeded is set
performSend ==
  /\ ~crashed
  /\ pr.pc = "send"
  /\ IF pr.i > Len(pr.requests)
       THEN pr' = [pr EXCEPT
                     !.pc = "poll",
                     !.actionNeeded =
                        actionNeededAt(pr.dueTime, pr.done, pr.endTime)]
       ELSE IF ~pr.done[pr.i] /\ pr.now >= pr.dueTime[pr.i]
         THEN \E r \in freeSlots :
                pr' = [pr EXCEPT !.pc = "calling", !.slot = r,
                                 !.dueTime[pr.i] = pr.endTime + NoRetry]
         ELSE pr' = [pr EXCEPT !.i = @ + 1]
  /\ UNCHANGED <<nextTicket, issued, apc, ain, ticketId, rec, tr, cbCount,
                 responses, toSend, received, th, dropLog, crashed, sync,
                 pa, bg, pf>>
  /\ UNCHANGED lk

\* lines 1142-1146: the arguments of the asyncRequest call
performAsyncInputs ==
  IF pr.pc = "calling"
    THEN { [clientTransactionID |-> "",
            coordTransactionID |-> pr.coordinatorTransactionID,
            destination |-> pr.requests[pr.i], callback |-> FALSE,
            singleRequest |-> FALSE] }
    ELSE {}

\* line 1148: opIDtoIndex.insert(std::make_pair(opId, i))
performInsert ==
  /\ ~crashed
  /\ pr.pc = "calling"
  /\ apc[pr.slot] = "returned"
  /\ pr' = [pr EXCEPT !.pc = "send", !.i = @ + 1,
                      !.opIDtoIndex = emplace(@, ticketId[pr.slot], pr.i)]
  /\ UNCHANGED <<nextTicket, issued, apc, ain, ticketId, rec, tr, cbCount,
                 responses, toSend, received, th, dropLog, crashed, sync,
                 pa, bg, pf>>
  /\ UNCHANGED lk

\* lines 1164-1167: the clock is read; the inner loop ends when the time for
\* the next action has come, otherwise wait is called
performPoll ==
  /\ ~crashed
  /\ pr.pc = "poll"
  /\ pr' = [pr EXCEPT !.now = pr.clock,
                      !.pc = IF reached(pr.clock, pr.actionNeeded)
                               THEN "loop" ELSE "waiting"]
  /\ UNCHANGED <<nextTicket, issued, apc, ain, ticketId, rec, tr, cbCount,
                 responses, toSend, received, th, dropLog, crashed, sync,
                 pa, bg, pf>>
  /\ UNCHANGED lk

\* lines 1168-1169: the arguments of the wait call
performWaitInputs ==
  IF pr.pc = "waiting"
    THEN { [clientTransactionID |-> "",
            coordTransactionID |-> pr.coordinatorTransactionID,
            ticketId |-> 0, shardID |-> "",
            timeout |-> pr.actionNeeded - pr.now] }
    ELSE {}

\* lines 1171-1235: what wait returned is handled.  answer_code and
\* sendWasComplete are the fields the callback's fromResponse or fromError
\* left in the record.  TRI_ASSERT(false) ends the process in a build with
\* assertions and does nothing in a build without.
performResult(answer_code, sendWasComplete) ==
  /\ ~crashed
  /\ pr.pc = "waiting"
  /\ th[1].pc = "ret"
  /\ th[1].op = "wait"
  /\ th' = [th EXCEPT ![1] = IdleThread]
  /\ LET res == th[1].res
         code == IF res.status = CL_COMM_RECEIVED THEN answer_code ELSE 0
         complete == res.status = CL_COMM_TIMEOUT /\ sendWasComplete
         stored == [status |-> res.status, operationID |-> res.operationID,
                    answer_code |-> code, sendWasComplete |-> complete]
         index == pr.opIDtoIndex[res.operationID]
         dueTime == backoff(pr.now, pr.startTime)
         finish(p) == IF allDone(p.nrDone, Len(p.requests))
                        THEN [p EXCEPT !.pc = "returned", !.ret = p.nrGood]
                        ELSE [p EXCEPT !.pc = "poll"]
     IN IF res.status = CL_COMM_TIMEOUT /\ res.operationID = 0
          THEN pr' = [pr EXCEPT !.pc = "loop"] /\ crashed' = crashed
        ELSE IF res.status = CL_COMM_DROPPED
          THEN /\ pr' = [pr EXCEPT !.now = pr.clock,
                           !.pc = IF reached(pr.clock, pr.actionNeeded)
                                    THEN "loop" ELSE "usleep"]
               /\ crashed' = crashed
        ELSE IF res.operationID \notin DOMAIN pr.opIDtoIndex
          THEN pr' = [pr EXCEPT !.pc = "poll"] /\ crashed' = crashed
        ELSE IF res.status = CL_COMM_RECEIVED
          THEN /\ pr' = finish([pr EXCEPT
                           !.result[index] = stored, !.done[index] = TRUE,
                           !.nrDone = @ + 1,
                           !.nrGood = IF isGood(code) THEN @ + 1 ELSE @])
               /\ crashed' = crashed
        ELSE IF retry(res.status, complete)
          THEN \/ /\ pr' = [pr EXCEPT !.pc = "asserted"]
                  /\ crashed' = TRUE
               \/ /\ pr' = finish([pr EXCEPT
                              !.result[index] = stored,
                              !.dueTime[index] = dueTime,
                              !.done[index] = (dueTime >= pr.endTime),
                              !.nrDone = IF dueTime >= pr.endTime
                                           THEN @ + 1 ELSE @,
                              !.actionNeeded = min2(@, dueTime)])
                  /\ crashed' = crashed
        ELSE /\ pr' = finish([pr EXCEPT
                         !.result[index] = stored, !.done[index] = TRUE,
                         !.nrDone = @ + 1])
             /\ crashed' = crashed
  /\ UNCHANGED <<nextTicket, issued, apc, ain, ticketId, rec, tr, cbCount,
                 responses, toSend, received, dropLog, sync, pa, bg, pf>>
  /\ UNCHANGED lk

\* lines 1181-1183: usleep, at least one tick long, and continue
performUsleep ==
  /\ ~crashed
  /\ pr.pc = "usleep"
  /\ pr.clock < MaxClock
  /\ \E later \in (pr.clock + 1)..MaxClock :
       pr' = [pr EXCEPT !.pc = "poll", !.clock = later]
  /\ UNCHANGED <<nextTicket, issued, apc, ain, ticketId, rec, tr, cbCount,
                 responses, toSend, received, th, dropLog, crashed, sync,
                 pa, bg, pf>>
  /\ UNCHANGED lk

\* line 1249: the arguments of the drop call
performDropInputs ==
  IF pr.pc = "timeout" /\ th[1].pc = "idle"
    THEN { [clientTransactionID |-> "",
            coordTransactionID |-> pr.coordinatorTransactionID,
            ticketId |-> 0, shardID |-> "", timeout |-> 0] }
    ELSE {}

\* line 1250: the return after the drop
performReturn ==
  /\ ~crashed
  /\ pr.pc = "timeout"
  /\ th[1].pc = "ret"
  /\ th[1].op = "drop"
  /\ th' = [th EXCEPT ![1] = IdleThread]
  /\ pr' = [pr EXCEPT !.pc = "returned", !.timedOut = TRUE,
                      !.ret = pr.nrGood]
  /\ UNCHANGED <<nextTicket, issued, apc, ain, ticketId, rec, tr, cbCount,
                 responses, toSend, received, dropLog, crashed, sync, pa,
                 bg, pf>>
  /\ UNCHANGED lk

\* TRI_microtime advances while performRequests runs
performTick ==
  /\ ~crashed
  /\ pr.pc \notin {"idle", "returned"}
  /\ pr.clock < MaxClock
  /\ pr' = [pr EXCEPT !.clock = @ + 1]
  /\ UNCHANGED <<nextTicket, issued, apc, ain, ticketId, rec, tr, cbCount,
                 responses, toSend, received, th, dropLog, crashed, sync,
                 pa, bg, pf>>
  /\ UNCHANGED lk

\* the HTTP return codes of a SimpleHttpResult
HttpCodes == {200, 201, 202, 404, 503}

\* req.result.result == nullptr
nullptr == 0

\* what performSingleRequest leaves in nrDone, req.done and req.result.status
\* and what it returns
SingleOutcome(ret, nrDone, done, status, died) ==
  [ret |-> ret, nrDone |-> nrDone, done |-> done, status |-> status,
   died |-> died]

\* lines 1281-1327 of performSingleRequest: the outcomes for the status
\* syncRequest returned and its req.result.result (nullptr or the HTTP return
\* code of the result).  Line 1304 goes through req.result.result without a
\* test; with a nullptr that is undefined (the process dies, or some code
\* is read).
performSingleRequest(status, result) ==
  LET finish(code) ==
        SingleOutcome(IF code \in {200, 201, 202} THEN 1 ELSE 0, 1, TRUE,
                      CL_COMM_RECEIVED, FALSE)
  IN IF status = CL_COMM_BACKEND_UNAVAILABLE
       THEN {SingleOutcome(0, 0, FALSE, CL_COMM_BACKEND_UNAVAILABLE, FALSE)}
     ELSE IF status = CL_COMM_ERROR /\ result # nullptr /\ result = 503
       THEN {SingleOutcome(0, 0, FALSE, CL_COMM_BACKEND_UNAVAILABLE, FALSE)}
     ELSE IF result = nullptr
       THEN {SingleOutcome(0, 1, TRUE, CL_COMM_RECEIVED, TRUE)}
              \cup {finish(code) : code \in HttpCodes}
     ELSE {finish(result)}

PerformNext ==
  \/ \E in \in PerformInputs : performRequests(in)
  \/ performLoop
  \/ performSend
  \/ \E in \in performAsyncInputs : asyncPrepare(pr.slot, in)
  \/ \E r \in Reqs : asyncAddRequest(r)
  \/ \E r \in Reqs : asyncInsert(r)
  \/ \E r \in Reqs : asyncReturn(r)
  \/ performInsert
  \/ \E r \in Reqs : onSuccess(r)
  \/ \E r \in Reqs, e \in ErrorCodes : onError(r, e)
  \/ \E r \in Reqs : notify(r)
  \/ performPoll
  \/ \E in \in performWaitInputs : waitFind(1, in)
  \/ waitCopy(1)
  \/ waitCheck(1)
  \/ waitWake(1)
  \/ waitErase(1)
  \/ waitReturn(1)
  \/ Tick
  \/ \E code \in AnswerCodes, complete \in BOOLEAN :
       performResult(code, complete)
  \/ performUsleep
  \/ \E in \in performDropInputs : dropSend(1, in)
  \/ dropRecv(1)
  \/ performReturn
  \/ performTick

PerformSpec == Init /\ [][PerformNext]_vars

(***************************************************************************)
(* One asyncRequest without caller callback, its transport callback on the *)
(* ClusterCommThread and the threads inside wait, with every               *)
(* CONDITION_LOCKER on somethingReceived as steps of its own: the mutex is *)
(* taken in one step and given back at the end of the step that runs the   *)
(* locked block.                                                           *)
(***************************************************************************)
\* everything but lk and crashed
lkFrame == <<nextTicket, issued, apc, ain, ticketId, rec, tr, cbCount,
             responses, toSend, received, th, dropLog, sync, pa, bg, pr, pf>>

\* lines 330-347: the request is prepared for a destination that resolves
lkPrepare ==
  /\ ~crashed
  /\ lk.spc = "idle"
  /\ lk' = [lk EXCEPT
              !.spc = "addRequest",
              !.result = [prepareRequest(<<"shard:", "S1">>)[1] EXCEPT
                            !.clientTransactionID = "a",
                            !.coordTransactionID = 1]]
  /\ UNCHANGED <<lkFrame, crashed>>

\* lines 399-401: from here on the transport may run the callback
lkAddRequest ==
  /\ ~crashed
  /\ lk.spc = "addRequest"
  /\ lk' = [lk EXCEPT !.spc = "setOperationID", !.ticketId = addRequest(0),
                      !.dpc = "queued"]
  /\ UNCHANGED <<lkFrame, crashed>>

\* line 403
lkSetOperationID ==
  /\ ~crashed
  /\ lk.spc = "setOperationID"
  /\ lk' = [lk EXCEPT !.spc = "lock", !.result.operationID = lk.ticketId]
  /\ UNCHANGED <<lkFrame, crashed>>

\* line 405: CONDITION_LOCKER(locker, somethingReceived)
lkSubmitterLock ==
  /\ ~crashed
  /\ lk.spc = "lock"
  /\ lk.mutex = <<"free">>
  /\ lk' = [lk EXCEPT !.spc = "emplace", !.mutex = <<"submitter">>]
  /\ UNCHANGED <<lkFrame, crashed>>

\* lines 406-407: the entry is inserted and the locker goes out of scope
lkEmplace ==
  /\ ~crashed
  /\ lk.spc = "emplace"
  /\ lk' = [lk EXCEPT !.spc = "setStatus", !.mutex = <<"free">>,
                      !.responses = @ \cup {lk.ticketId}]
  /\ UNCHANGED <<lkFrame, crashed>>

\* lines 408-409
lkSetStatus ==
  /\ ~crashed
  /\ lk.spc = "setStatus"
  /\ lk' = [lk EXCEPT !.spc = "returned",
                      !.result.status = CL_COMM_SUBMITTED]
  /\ UNCHANGED <<lkFrame, crashed>>

\* lines 375 and 392: the callback begins with fromError or fromResponse
lkCallback ==
  /\ ~crashed
  /\ lk.dpc = "queued"
  /\ \E res \in {fromResponse(lk.result)}
                  \cup {fromError(lk.result, e) : e \in ErrorCodes} :
       lk' = [lk EXCEPT !.dpc = "lock", !.result = res]
  /\ UNCHANGED <<lkFrame, crashed>>

\* lines 387 and 394: CONDITION_LOCKER(locker, somethingReceived)
lkDriverLock ==
  /\ ~crashed
  /\ lk.dpc = "lock"
  /\ lk.mutex = <<"free">>
  /\ lk' = [lk EXCEPT !.dpc = "broadcast", !.mutex = <<"driver">>]
  /\ UNCHANGED <<lkFrame, crashed>>

\* lines 388 and 395: the threads asleep on the condition are woken, the
\* locker goes out of scope
lkBroadcast ==
  /\ ~crashed
  /\ lk.dpc = "broadcast"
  /\ lk' = [lk EXCEPT
              !.dpc = "done", !.mutex = <<"free">>,
              !.w = [c \in Waiters |->
                       IF lk.w[c].pc = "w_asleep"
                         THEN [lk.w[c] EXCEPT !.notified = TRUE]
                         ELSE lk.w[c]]]
  /\ UNCHANGED <<lkFrame, crashed>>

\* lines 672-686: wait("", 0, 0, "", 0.0) is called
lkWaitEnter(c) ==
  /\ ~crashed
  /\ lk.w[c].pc = "idle"
  /\ lk' = [lk EXCEPT !.w[c].pc = "w_lock"]
  /\ UNCHANGED <<lkFrame, crashed>>

\* lines 688, 713 and 718: CONDITION_LOCKER(locker, somethingReceived)
lkWaiterLock(c) ==
  /\ ~crashed
  /\ lk.w[c].pc \in {"w_lock", "w_lock2", "w_lock3"}
  /\ lk.mutex = <<"free">>
  /\ lk' = [lk EXCEPT
              !.mutex = <<"waiter", c>>,
              !.w[c].pc = CASE lk.w[c].pc = "w_lock" -> "w_find"
                            [] lk.w[c].pc = "w_lock2" -> "w_wait"
                            [] OTHER -> "w_erase"]
  /\ UNCHANGED <<lkFrame, crashed>>

\* lines 689-709: the first entry that matches, or the Dropped record
lkFind(c) ==
  /\ ~crashed
  /\ lk.w[c].pc = "w_find"
  /\ IF lk.responses = {}
       THEN lk' = [lk EXCEPT !.mutex = <<"free">>, !.w[c].pc = "returned",
                             !.w[c].res = droppedResult(0)]
       ELSE \E t \in lk.responses :
              lk' = [lk EXCEPT !.mutex = <<"free">>, !.w[c].pc = "w_copy",
                               !.w[c].i = t]
  /\ UNCHANGED <<lkFrame, crashed>>

\* line 710: response = i->second, outside the lock; through an iterator to
\* an erased entry that is undefined (the freed node is read, or a crash)
lkCopy(c) ==
  /\ ~crashed
  /\ lk.w[c].pc = "w_copy"
  /\ \/ /\ lk' = [lk EXCEPT !.w[c].pc = "w_read"]
        /\ crashed' = crashed
     \/ /\ lk.w[c].i \notin lk.responses
        /\ lk' = lk
        /\ crashed' = TRUE
  /\ UNCHANGED lkFrame

\* line 712: the loop condition reads the status, outside the lock
lkRead(c) ==
  /\ ~crashed
  /\ lk.w[c].pc = "w_read"
  /\ lk' = [lk EXCEPT !.w[c].pc =
              IF lk.result.status = CL_COMM_SUBMITTED THEN "w_lock2"
                                                      ELSE "w_lock3"]
  /\ UNCHANGED <<lkFrame, crashed>>

\* line 714: somethingReceived.wait gives the mutex back and sleeps
lkCondWait(c) ==
  /\ ~crashed
  /\ lk.w[c].pc = "w_wait"
  /\ lk' = [lk EXCEPT !.mutex = <<"free">>, !.w[c].pc = "w_asleep",
                      !.w[c].notified = FALSE, !.w[c].slept = FALSE]
  /\ UNCHANGED <<lkFrame, crashed>>

\* the 60 seconds of a sleeper that nobody has woken are over
lkSlice(c) ==
  /\ ~crashed
  /\ lk.w[c].pc = "w_asleep"
  /\ ~lk.w[c].notified
  /\ ~lk.w[c].slept
  /\ lk' = [lk EXCEPT !.w[c].slept = TRUE]
  /\ UNCHANGED <<lkFrame, crashed>>

\* lines 714-715: the sleeper is woken or its time is over; it takes the
\* mutex again and the locker goes out of scope
lkWake(c) ==
  /\ ~crashed
  /\ lk.w[c].pc = "w_asleep"
  /\ lk.w[c].notified \/ lk.w[c].slept
  /\ lk.mutex = <<"free">>
  /\ lk' = [lk EXCEPT !.w[c].pc = "w_read"]
  /\ UNCHANGED <<lkFrame, crashed>>

\* lines 719-720: responses.erase(i) and the locker goes out of scope; with
\* an iterator to an entry already erased that is undefined (nothing
\* happens, or a crash)
lkErase(c) ==
  /\ ~crashed
  /\ lk.w[c].pc = "w_erase"
  /\ \/ /\ lk' = [lk EXCEPT !.mutex = <<"free">>, !.w[c].pc = "w_return",
                            !.responses = @ \ {lk.w[c].i}]
        /\ crashed' = crashed
     \/ /\ lk.w[c].i \notin lk.responses
        /\ lk' = lk
        /\ crashed' = TRUE
  /\ UNCHANGED lkFrame

\* line 724: return *response.result.get()
lkReturn(c) ==
  /\ ~crashed
  /\ lk.w[c].pc = "w_return"
  /\ lk' = [lk EXCEPT !.w[c].pc = "returned", !.w[c].res = lk.result]
  /\ UNCHANGED <<lkFrame, crashed>>

LockNext ==
  \/ lkPrepare
  \/ lkAddRequest
  \/ lkSetOperationID
  \/ lkSubmitterLock
  \/ lkEmplace
  \/ lkSetStatus
  \/ lkCallback
  \/ lkDriverLock
  \/ lkBroadcast
  \/ \E c \in Waiters : lkWaitEnter(c)
  \/ \E c \in Waiters : lkWaiterLock(c)
  \/ \E c \in Waiters : lkFind(c)
  \/ \E c \in Waiters : lkCopy(c)
  \/ \E c \in Waiters : lkRead(c)
  \/ \E c \in Waiters : lkCondWait(c)
  \/ \E c \in Waiters : lkSlice(c)
  \/ \E c \in Waiters : lkWake(c)
  \/ \E c \in Waiters : lkErase(c)
  \/ \E c \in Waiters : lkReturn(c)

LockSpec == Init /\ [][LockNext]_vars


DropInputs == {[in EXCEPT !.timeout = 0] : in \in CallInputs}

Next ==
  \/ \E r \in Reqs, in \in AsyncInputs : asyncPrepare(r, in)
  \/ \E r \in Reqs : asyncAddRequest(r)
  \/ \E r \in Reqs : asyncInsert(r)
  \/ \E r \in Reqs : asyncReturn(r)
  \/ \E r \in Reqs : onSuccess(r)
  \/ \E r \in Reqs, e \in ErrorCodes : onError(r, e)
  \/ \E r \in Reqs : notify(r)
  \/ \E c \in Threads, in \in CallInputs : enquire(c, in.ticketId)
  \/ \E c \in Threads, in \in CallInputs : waitFind(c, in)
  \/ \E c \in Threads : waitCopy(c)
  \/ \E c \in Threads : waitCheck(c)
  \/ \E c \in Threads : waitWake(c)
  \/ \E c \in Threads : waitErase(c)
  \/ \E c \in Threads : waitReturn(c)
  \/ \E c \in Threads, in \in DropInputs : dropSend(c, in)
  \/ \E c \in Threads : dropRecv(c)
  \/ \E c \in Threads : callDone(c)
  \/ Tick

Spec == Init /\ [][Next]_vars

(***************************************************************************)
(* Properties                                                              *)
(***************************************************************************)
\* the record of call r is in TrackedResponses
tracked(r) == ticketId[r] \in Tracked /\ responses[ticketId[r]] = r

\* C1: once the status of a tracked record is Received, Timeout, Error,
\* Dropped or BackendUnavailable, no later step changes it.
C1_TerminalStatusIsFinal ==
  [][\A r \in Reqs :
       (tracked(r) /\ rec[r].status \in TerminalStatus)
         => rec'[r].status = rec[r].status]_vars

\* C2: every ticket asyncRequest returned ends with a terminal status: once
\* asyncRequest has returned and the transport has run the ticket's callback
\* (its one and only update), the record holds a terminal status.
C2_TicketEndsTerminal ==
  \A r \in Reqs :
    (apc[r] = "returned" /\ tr[r] = "done")
      => rec[r].status \in TerminalStatus

\* C3: when wait returns the record of a tracked ticket, the ticket is no
\* longer in TrackedResponses and the returned status is not Submitted.
C3_WaitReturnsRemovedAndCompleted ==
  \A c \in Threads :
    (th[c].pc = "ret" /\ th[c].op = "wait" /\ th[c].i # End)
      => /\ th[c].i \notin Tracked
         /\ th[c].res.status # CL_COMM_SUBMITTED

\* C4: a thread that called wait with a timeout t > 0 is never asleep in wait
\* later than t after the call.
C4_WaitBoundedByTimeout ==
  \A c \in Threads :
    (th[c].pc = "w_sleep" /\ th[c].in.timeout > 0)
      => th[c].elapsed <= th[c].in.timeout

C6_DropRemovesMatching ==
  \A c \in Threads :
    (th[c].pc = "ret" /\ th[c].op = "drop")
      => dropLog.matched \cap Tracked = {}

\* C7: drop is idempotent: a second drop with the same arguments changes
\* neither TrackedResponses nor the queues, and after each of the two calls
\* enquire reports Dropped for the tickets that matched.
C7_DropIdempotent ==
  [][\A c \in Threads :
       (th[c].op = "drop" /\ th'[c].op = "drop" /\ th'[c].pc # th[c].pc)
         => /\ dropLog'.calls = 2
                 => <<responses', toSend', received'>>
                      = <<responses, toSend, received>>
            /\ th'[c].pc = "ret"
                 => \A t \in dropLog'.matched :
                      t \notin DOMAIN responses'
                        \/ rec'[responses'[t]].status = CL_COMM_DROPPED]_vars

\* C8: enquire changes neither TrackedResponses nor any record; it returns
\* the current state of the record of a tracked ticket and, for any other
\* ticket, a record with that ticket and status Dropped.
C8_EnquireReadOnly ==
  [][\A c \in Threads :
       (th[c].pc = "idle" /\ th'[c].op = "enquire")
         => /\ <<responses', rec', toSend', received'>>
                 = <<responses, rec, toSend, received>>
            /\ LET t == th'[c].in.ticketId
               IN IF t \in DOMAIN responses
                    THEN th'[c].res = rec[responses[t]]
                    ELSE /\ th'[c].res.operationID = t
                         /\ th'[c].res.status = CL_COMM_DROPPED]_vars

\* an enquire has returned the record of a ticket that is still tracked
C8_Witness ==
  \E c \in Threads :
    /\ th[c].pc = "ret" /\ th[c].op = "enquire"
    /\ th[c].i \in Tracked
    /\ th[c].res = rec[responses[th[c].i]]
    /\ th[c].res.status = CL_COMM_RECEIVED

\* the tickets handed out so far are non-zero and strictly increasing, and
\* the calls that hold one hold different ones
TicketsOk ==
  /\ \A i \in 1..Len(issued) :
       issued[i] # 0 /\ \A j \in 1..(i - 1) : issued[j] < issued[i]
  /\ \A r \in Reqs :
       apc[r] \in {"added", "inserted", "returned"}
         => /\ ticketId[r] # 0
            /\ \A q \in Reqs \ {r} :
                 apc[q] \in {"added", "inserted", "returned"}
                   => ticketId[q] # ticketId[r]

\* C9: the tickets of asyncRequest are pairwise distinct, strictly increasing
\* in issue order and never zero, and the insertion of a new ticket into
\* TrackedResponses meets no existing entry.
C9_TicketsDistinctIncreasing ==
  [][/\ TicketsOk'
     /\ \A r \in Reqs :
          (apc[r] = "added" /\ apc'[r] = "inserted")
            => /\ ticketId[r] \notin DOMAIN responses
               /\ ticketId[r] \in DOMAIN responses'
               /\ responses'[ticketId[r]] = r]_vars

\* two concurrent calls have returned, the second one with the lower ticket,
\* and both tickets are tracked
C9_Witness ==
  /\ \A r \in Reqs : apc[r] = "returned" /\ tracked(r)
  /\ ticketId[2] < ticketId[1]

\* C11: when asyncRequest has returned for a destination whose resolution
\* failed and the transport has not yet run a callback, the ticket is tracked
\* and its record (what enquire returns) has status BackendUnavailable.
C11_FailedResolutionTrackedUnavailable ==
  \A r \in Reqs :
    (apc[r] = "returned" /\ rec[r].endpoint = "" /\ tr[r] = "queued")
      => /\ tracked(r)
         /\ enquireResult(ticketId[r]).status = CL_COMM_BACKEND_UNAVAILABLE

\* C10: for a destination whose resolution fails nothing is handed to the
\* transport.
C10_NoSubmissionOnResolutionFailure ==
  \A r \in Reqs :
    (apc[r] # "idle" /\ rec[r].endpoint = "") => tr[r] = "none"

C14_SyncKeepsNoRecord ==
  [][/\ sync' # sync => responses' = responses
     /\ sync'.pc # "idle"
          => /\ sync'.ticket \notin DOMAIN responses'
             /\ sync'.result.operationID \notin DOMAIN responses']_vars

\* a syncRequest has gone through the transport and returned while a ticket
\* of asyncRequest is tracked
C14_Witness ==
  /\ sync.pc = "returned"
  /\ sync.ticket # 0
  /\ Tracked # {}
  /\ sync.ticket \notin Tracked

\* C15: the record syncRequest returns for a resolvable destination has
\* status Received, Timeout, Error or BackendUnavailable.
C15_SyncReturnsTerminal ==
  (sync.pc = "returned" /\ sync.result.endpoint # "")
    => sync.result.status \in {CL_COMM_RECEIVED, CL_COMM_TIMEOUT,
                               CL_COMM_ERROR, CL_COMM_BACKEND_UNAVAILABLE}

\* C16: a processAnswer call that returns for a header naming a ticket T
\* which is tracked and was submitted with singleRequest = false sets the
\* status of T to Received, wakes the threads asleep in wait on T and
\* returns the empty string.
C16_AnswerCompletesTrackedTicket ==
  [][\A h \in Headers :
       (/\ pa' # pa
        /\ pa'.header = h
        /\ parseHeader(h).error = ""
        /\ parseHeader(h).operationID \in DOMAIN responses
        /\ ~rec[responses[parseHeader(h).operationID]].single)
         => /\ pa'.ret = ""
            /\ rec'[responses[parseHeader(h).operationID]].status
                 = CL_COMM_RECEIVED
            /\ \A c \in Threads :
                 (th[c].pc = "w_sleep" /\ th[c].i = parseHeader(h).operationID)
                   => th'[c].notified]_vars

\* the number of ':' in a header
colons(header) == Cardinality({i \in 1..Len(header) : header[i] = ":"})

\* the strings processAnswer returns for a header it cannot take apart
ParseErrors == {NoCoordinatorID, NoOperationID}

C12_CallbackInvokedBeforeReturn ==
  \A r \in Reqs :
    (apc[r] = "returned" /\ ain[r].callback /\ rec[r].endpoint = "")
      => cbCount[r] >= 1

\* C18: once the deadline of a tracked request that the backend has not
\* answered has passed and the background worker has gone through its loop
\* again, the record has status Timeout.
C18_SweepTimesOutExpired ==
  \A r \in Reqs :
    (/\ apc[r] = "returned" /\ tracked(r) /\ tr[r] = "queued"
     /\ r \in bg.expired /\ bg.loops >= 1)
      => rec[r].status = CL_COMM_TIMEOUT

\* C19: an asyncRequest or syncRequest call begun after beginShutdown hands
\* nothing to the transport and returns a record with status
\* BackendUnavailable.
C19_NoSubmissionAfterShutdown ==
  /\ \A r \in bg.late :
       /\ apc[r] # "idle" => tr[r] = "none"
       /\ apc[r] = "returned"
            => rec[r].status = CL_COMM_BACKEND_UNAVAILABLE
  /\ sync.late
       => /\ sync.tr = "none"
          /\ sync.pc = "returned"
               => sync.result.status = CL_COMM_BACKEND_UNAVAILABLE

\* C20: beginShutdown wakes every thread asleep in wait on somethingReceived.
C20_ShutdownWakesWaiters ==
  [][(~bg.stopping /\ bg'.stopping)
       => \A c \in Threads : th[c].pc = "w_sleep" => th'[c].notified]_vars

\* the record the resolver is to produce for a destination of a valid form
\* when its lookups succeed
firstEndpoint(shardID) == getServerEndpoint(getResponsibleServer(shardID)[1])

\* C29: for shard: the resolver takes the first responsible server and that
\* server's endpoint, for server: the endpoint of the server named, for
\* tcp:// and ssl:// the destination itself with both ids empty and the
\* status untouched, and for every other form status BackendUnavailable with
\* an empty endpoint; the same destination always resolves to the same record.
C29_ResolverByForm ==
  pf.pc = "done" =>
    LET p == pf.destination[1]
        q == pf.destination[2]
        res == pf.resolved
        found(ep) == IF ep = "" THEN CL_COMM_BACKEND_UNAVAILABLE
                                ELSE NewResult.status
    IN /\ (p = "shard:" /\ getResponsibleServer(q) # <<>>)
            => /\ res.shardID = q
               /\ res.serverID = getResponsibleServer(q)[1]
               /\ res.endpoint = firstEndpoint(q)
               /\ res.status = found(firstEndpoint(q))
       /\ p = "server:"
            => /\ res.shardID = "" /\ res.serverID = q
               /\ res.endpoint = getServerEndpoint(q)
               /\ res.status = found(getServerEndpoint(q))
       /\ p \in {"tcp://", "ssl://"}
            => res = [NewResult EXCEPT !.endpoint = p \o q]
       /\ p \notin {"shard:", "server:", "tcp://", "ssl://"}
            => /\ res.status = CL_COMM_BACKEND_UNAVAILABLE
               /\ res.endpoint = ""
       /\ [res EXCEPT !.shardID = "", !.serverID = "", !.endpoint = "",
                      !.errorMessage = "", !.status = NewResult.status]
            = NewResult

\* shard S1, which has two responsible servers, has been resolved to the
\* first of them
C29_Witness ==
  /\ pf.pc = "done"
  /\ pf.destination = <<"shard:", "S1">>
  /\ Len(getResponsibleServer("S1")) > 1
  /\ pf.resolved.serverID = "srvA"
  /\ pf.resolved.endpoint = "tcp://h:8529"

\* C30: resolving shard:X when no server is responsible for X gives status
\* BackendUnavailable and an errorMessage naming the shard.
C30_NoResponsibleServerMessage ==
  (/\ pf.pc = "done"
   /\ pf.destination[1] = "shard:"
   /\ getResponsibleServer(pf.destination[2]) = <<>>)
    => /\ pf.resolved.status = CL_COMM_BACKEND_UNAVAILABLE
       /\ pf.resolved.errorMessage # ""

\* C28: a request built for the async-answer pattern (singleRequest = false)
\* carries X-Arango-Async: store and an X-Arango-Coordinator header.
C28_AsyncAnswerHeaders ==
  (pf.pc = "done" /\ pf.built /\ ~pf.singleRequest)
    => /\ "X-Arango-Async" \in DOMAIN pf.headers
       /\ pf.headers["X-Arango-Async"] = "store"
       /\ "X-Arango-Coordinator" \in DOMAIN pf.headers

\* the requests of the vector, and those of them with a good final result
indices == 1..Len(pr.requests)

succeeded ==
  {i \in indices : /\ pr.result[i].status = CL_COMM_RECEIVED
                   /\ pr.result[i].answer_code \in {200, 201, 202}}

C22_ReturnsNumberOfGoodAnswers ==
  /\ pr.nrGood <= pr.nrDone
  /\ pr.nrDone <= Len(pr.requests)
  /\ pr.pc \notin {"idle", "asserted"} =>
       /\ pr.nrDone = Cardinality({i \in indices : pr.done[i]})
       /\ pr.nrGood = Cardinality(succeeded)
  /\ pr.pc = "returned" => pr.ret = Cardinality(succeeded)

\* two requests were answered, one with a good code and one with 404, and the
\* call has returned 1 with nrDone = 2
C22_Witness ==
  /\ pr.pc = "returned"
  /\ Len(pr.requests) = 2
  /\ pr.nrDone = 2
  /\ pr.ret = 1
  /\ \E i \in indices : pr.result[i].answer_code = 404

\* the attempt of request i ended in a result that is final
final(i) ==
  \/ pr.result[i].status \in {CL_COMM_RECEIVED, CL_COMM_ERROR}
  \/ (pr.result[i].status = CL_COMM_TIMEOUT /\ pr.result[i].sendWasComplete)

\* the attempt of request i ended in a result that is retried
retried(i) ==
  \/ pr.result[i].status = CL_COMM_BACKEND_UNAVAILABLE
  \/ (pr.result[i].status = CL_COMM_TIMEOUT /\ ~pr.result[i].sendWasComplete)

\* C23: a request is submitted only when it is not done and it either has no
\* result yet or its last attempt ended in BackendUnavailable or in Timeout
\* with sendWasComplete = false; a request whose attempt ended in Received,
\* Error or Timeout with sendWasComplete = true is done.
C23_ResubmitsOnlyRetryable ==
  [][/\ (pr.pc # "calling" /\ pr'.pc = "calling")
          => /\ ~pr.done[pr.i]
             /\ pr.result[pr.i] = NoAnswerYet \/ retried(pr.i)
     /\ \A i \in 1..Len(pr'.requests) :
          (pr'.pc # "asserted" /\ final(i)') => pr'.done[i]]_vars

\* a request whose first attempt ended in BackendUnavailable is being
\* submitted for the second time
C23_Witness ==
  /\ pr.pc = "calling"
  /\ pr.slot = 2
  /\ Len(pr.requests) = 1
  /\ pr.result[1].status = CL_COMM_BACKEND_UNAVAILABLE
  /\ ~pr.done[1]

\* C24: when wait hands performRequests a BackendUnavailable result of one
\* of its requests, the result is stored and the request is scheduled for
\* its next attempt (or marked done when that attempt would come at or after
\* endTime); the call goes on.
C24_ConnectFailureIsRetried ==
  [][(/\ pr.pc = "waiting"
      /\ th[1].pc = "ret"
      /\ th[1].res.status = CL_COMM_BACKEND_UNAVAILABLE
      /\ th[1].res.operationID \in DOMAIN pr.opIDtoIndex
      /\ pr'.pc # "waiting")
       => LET index == pr.opIDtoIndex[th[1].res.operationID]
          IN /\ ~crashed'
             /\ pr'.result[index].status = CL_COMM_BACKEND_UNAVAILABLE
             /\ pr'.dueTime[index] = backoff(pr.now, pr.startTime)
             /\ pr'.done[index] <=> pr'.dueTime[index] >= pr.endTime]_vars

\* C25: after performRequests has returned through the timeout exit, no
\* record with the call's coordTransactionID is in TrackedResponses.
C25_TimeoutExitLeavesNothingTracked ==
  (pr.pc = "returned" /\ pr.timedOut)
    => \A t \in Tracked :
         rec[responses[t]].coordTransactionID # pr.coordinatorTransactionID

\* C26: a call with total timeout 0 and a non-empty vector never calls wait
\* and returns 0 with nrDone = 0.
C26_ZeroTimeoutReturnsWithoutWaiting ==
  (pr.pc # "idle" /\ Len(pr.requests) > 0 /\ pr.timeout = 0)
    => /\ th[1].op # "wait"
       /\ pr.pc # "waiting"
       /\ pr.nrDone = 0
       /\ pr.pc = "returned" => (pr.ret = 0 /\ pr.timedOut)

\* a call with total timeout 0 has submitted its request and has returned
C26_Witness ==
  /\ pr.pc = "returned"
  /\ pr.timeout = 0
  /\ Len(pr.requests) = 1
  /\ apc[1] = "returned"
  /\ pr.ret = 0
  /\ pr.nrDone = 0

\* C27: performRequests is never asleep inside wait for good: when the
\* transport has invoked the callback of every ticket submitted, the record
\* the call waits for is no longer Submitted.
C27_NeverAsleepAfterAllCallbacks ==
  (/\ pr.pc = "waiting"
   /\ th[1].pc = "w_sleep"
   /\ \A r \in Reqs : apc[r] # "idle" => tr[r] = "done")
    => rec[th[1].rid].status # CL_COMM_SUBMITTED

\* C31: asyncRequest hands the transport requestTimeout = timeout and
\* connectTimeout = initTimeout when initTimeout > 0, connectTimeout = timeout
\* otherwise; with timeout > 0 the connect timeout is positive.
C31_ConnectTimeoutDefaultsToTimeout ==
  pf.pc = "done" =>
    /\ pf.opt.requestTimeout = pf.timeout
    /\ pf.opt.connectionTimeout =
         IF pf.initTimeout > 0 THEN pf.initTimeout ELSE pf.timeout
    /\ pf.timeout > 0 => pf.opt.connectionTimeout > 0

\* C33: once the caller callback of a request has been invoked and
\* asyncRequest has returned, the ticket is not in TrackedResponses.
C33_CallbackPreventsLeak ==
  \A r \in Reqs :
    (ain[r].callback /\ cbCount[r] > 0 /\ apc[r] = "returned")
      => ticketId[r] \notin Tracked

\* C36: for a request with a caller callback and a resolved destination the
\* caller callback has been invoked exactly once when the transport has run
\* its callback, and not at all before; no caller callback is invoked twice.
C36_CallerCallbackExactlyOnce ==
  \A r \in Reqs :
    /\ cbCount[r] <= 1
    /\ (ain[r].callback /\ rec[r].endpoint # "")
         => cbCount[r] = IF tr[r] = "done" THEN 1 ELSE 0

\* the transport has answered a request with a caller callback and a
\* resolved destination, and the callback has been invoked
C36_Witness ==
  \E r \in Reqs :
    /\ ain[r].callback
    /\ rec[r].endpoint # ""
    /\ tr[r] = "done"
    /\ cbCount[r] = 1

\* C40: when a transport callback starts or the caller callback is invoked,
\* the record's operationID is the ticket of the request and the record is
\* in TrackedResponses.
C40_CallbackSeesRegisteredRecord ==
  [][\A r \in Reqs :
       (tr[r] \in {"queued", "running"} /\ tr'[r] # tr[r])
         => /\ rec[r].operationID = ticketId[r]
            /\ rec[r].operationID # 0
            /\ apc[r] \in {"inserted", "returned"}]_vars

\* the req.result.result a transport result of the given status comes with
resultsOf(status, answer_code) ==
  CASE status = CL_COMM_RECEIVED -> {answer_code}
    [] status = CL_COMM_ERROR -> {nullptr, 404, 503}
    [] OTHER -> {nullptr}

\* C34: for a vector of one request and every behaviour of the backend,
\* performSingleRequest gives the return value, nrDone, done flag and final
\* status that performRequests gives.
C34_SingleRequestSameAsPerformRequests ==
  (/\ pr.pc = "returned"
   /\ Len(pr.requests) = 1
   /\ pr.result[1] # NoAnswerYet)
    => \A result \in resultsOf(pr.result[1].status, pr.result[1].answer_code) :
         \A single \in performSingleRequest(pr.result[1].status, result) :
           single = SingleOutcome(pr.ret, pr.nrDone, pr.done[1],
                                  pr.result[1].status, FALSE)

\* x limited to the range lo..hi
clamp(x, lo, hi) == IF x < lo THEN lo ELSE IF x > hi THEN hi ELSE x

\* C35: when performRequests handles a retryable result (BackendUnavailable,
\* or Timeout with sendWasComplete = false), the request's dueTime becomes
\* now + clamp(2 * (now - startTime), 0.2 s, 10 s); the request is marked done
\* and counted in nrDone iff that dueTime >= endTime, and actionNeeded becomes
\* that dueTime if it is earlier.
C35_BackoffSchedule ==
  [][\A index \in 1..Len(pr.requests) :
       (/\ pr.pc = "waiting"
        /\ pr'.pc # "waiting"
        /\ th[1].pc = "ret"
        /\ th[1].res.operationID \in DOMAIN pr.opIDtoIndex
        /\ pr.opIDtoIndex[th[1].res.operationID] = index
        /\ \/ th[1].res.status = CL_COMM_BACKEND_UNAVAILABLE
           \/ /\ th[1].res.status = CL_COMM_TIMEOUT
              /\ pr'.pc = "asserted" \/ ~pr'.result[index].sendWasComplete)
         => LET due == pr.now + clamp(2 * (pr.now - pr.startTime),
                                      RetryMin, RetryMax)
            IN /\ pr'.dueTime[index] = due
               /\ pr'.done[index] <=> due >= pr.endTime
               /\ pr'.nrDone = IF due >= pr.endTime THEN pr.nrDone + 1
                                                    ELSE pr.nrDone
               /\ pr'.actionNeeded = min2(pr.actionNeeded, due)]_vars

\* C37: a wait with ticket 0 is not asleep on a Submitted record while
\* another tracked record that matches its filters has a terminal status
\* (set by a transport callback that has finished, broadcast included).
C37_WaitTakesTerminalRecordFirst ==
  \A c \in Threads :
    (/\ th[c].pc = "w_sleep"
     /\ th[c].in.ticketId = 0
     /\ ~th[c].notified
     /\ rec[th[c].rid].status = CL_COMM_SUBMITTED)
      => \A t \in waitCandidates(th[c].in) :
           tr[responses[t]] = "done"
             => rec[responses[t]].status \notin TerminalStatus

\* C32: every step that writes the status of the record (the callback's
\* fromResponse or fromError, asyncRequest's write of Submitted) and every
\* step in which wait reads it is taken by a thread that holds the mutex of
\* somethingReceived.
C32_StatusAccessUnderMutex ==
  [][/\ (lk.dpc = "queued" /\ lk'.dpc # "queued") => lk.mutex = <<"driver">>
     /\ (lk.spc = "setStatus" /\ lk'.spc # "setStatus")
          => lk.mutex = <<"submitter">>
     /\ \A c \in Waiters :
          (lk.w[c].pc = "w_read" /\ lk'.w[c].pc # "w_read")
            => lk.mutex = <<"waiter", c>>]_vars

\* C38: a thread inside wait erases only an entry that is still in
\* TrackedResponses, and at most one thread returns the record of a ticket.
C38_EntryErasedOnce ==
  [][/\ \A c \in Waiters :
          (lk.w[c].pc = "w_erase" /\ lk'.w[c] # lk.w[c])
            => lk.w[c].i \in lk.responses
     /\ Cardinality({c \in Waiters :
                       /\ lk'.w[c].pc = "returned"
                       /\ lk'.w[c].res.status # CL_COMM_DROPPED}) <= 1]_vars

\* C39: a thread in wait does not sleep through a whole 60-second slice
\* while the record it waits for holds the terminal status that the
\* callback has set and broadcast.
C39_NoLostWakeup ==
  \A c \in Waiters :
    (/\ lk.w[c].pc = "w_asleep"
     /\ lk.w[c].slept
     /\ lk.dpc = "done"
     /\ lk.spc = "returned")
      => lk.result.status = CL_COMM_SUBMITTED
====
